---- MODULE Spec2Model ----
(***************************************************************************)
(* PositionableWaveDisplay (dRowAudio): a waveform view with a transport   *)
(* cursor.  The model follows                                              *)
(*   src/dRowAudio/gui/audiothumbnail/dRowAudio_PositionableWaveDisplay.cpp *)
(* handler by handler.  One action is one call of a member function by the *)
(* message thread; the collaborators (AudioThumbnailImage, AudioFilePlayer, *)
(* the component's bounds) are inputs of the call.                          *)
(*                                                                         *)
(* A C++ double is a pair <<n, d>>: the rational n/d in lowest terms when   *)
(* d > 0, +infinity <<1, 0>>, -infinity <<-1, 0>> and NaN <<0, 0>>.  The    *)
(* arithmetic is exact (the rounding of IEEE doubles is not modelled); the  *)
(* double -> int conversion truncates toward zero as C++ does.              *)
(***************************************************************************)
EXTENDS Integers, Sequences, FiniteSets, TLC

\* ------------------------------------------------------------- bounds
MaxWidth  == 3
MaxHeight == 2
MaxLength == 2

\* ------------------------------------------------- program constants
DefaultSampleRate == 44100
MaxZoomRatio      == 10000
CursorWidth       == 3
DirtyWidth        == 5

\* --------------------------------------------------------- doubles
RECURSIVE GCD(_, _)
GCD(a, b) == IF b = 0 THEN a ELSE GCD(b, a % b)

Abs(i) == IF i < 0 THEN -i ELSE i
Sign(i) == IF i > 0 THEN 1 ELSE IF i < 0 THEN -1 ELSE 0

\* n/d in lowest terms; d = 0 gives the infinities and NaN
Norm(n, d) ==
    IF d = 0 THEN <<Sign(n), 0>>
    ELSE LET g == GCD(Abs(n), Abs(d))
             s == Sign(d)
         IN  <<(s * n) \div g, (s * d) \div g>>

D(i)      == <<i, 1>>
Ratio(n, d) == Norm(n, d)
PosInf    == <<1, 0>>
NaN       == <<0, 0>>
IsFinite(a) == a[2] # 0
IsNaN(a)    == a = NaN

DMul(a, b) == Norm(a[1] * b[1], a[2] * b[2])
DInv(a)    == IF a[1] < 0 THEN Norm(-a[2], -a[1]) ELSE Norm(a[2], a[1])
DDiv(a, b) == DMul(a, DInv(b))
DAdd(a, b) ==
    IF a[2] = 0 /\ b[2] = 0 THEN (IF a = b THEN a ELSE NaN)
    ELSE Norm(a[1] * b[2] + b[1] * a[2], a[2] * b[2])
DNeg(a)    == <<-a[1], a[2]>>
DSub(a, b) == DAdd(a, DNeg(b))
\* a < b and a > b as C++ compares doubles: false when either is NaN
DLess(a, b) ==
    /\ ~IsNaN(a) /\ ~IsNaN(b)
    /\ IF a[2] = 0 /\ b[2] = 0 THEN a[1] < b[1]
       ELSE a[1] * b[2] < b[1] * a[2]
DGreater(a, b) == DLess(b, a)
DAbs(a)    == <<Abs(a[1]), a[2]>>

\* (int) of a finite double: truncation toward zero
Trunc(a) == IF a[1] >= 0 THEN a[1] \div a[2] ELSE -((-a[1]) \div a[2])

\* The conversion of a non-finite double to int is undefined: any int may
\* result.  UndefinedInts samples those outcomes.
UndefinedInts == {-1, 0, 1}
ToInt(a) == IF IsFinite(a) THEN {Trunc(a)} ELSE UndefinedInts

\* A member the constructor leaves uninitialised holds Indeterminate until it
\* is first assigned; reading it yields any value of its type.
\* An indeterminate double is the pair <<0, -1>>, which no arithmetic
\* produces; an int member is <<>> while indeterminate and <<i>> once assigned.
Indeterminate == <<0, -1>>
IndeterminateDoubles == {D(0), D(1), PosInf}
ReadDouble(v) == IF v = Indeterminate THEN IndeterminateDoubles ELSE {v}
IndeterminateInt == <<>>

\* ---------------------------------------------------------- images
NullImage == [valid |-> FALSE, w |-> 0, h |-> 0]
Image(w, h) == [valid |-> TRUE, w |-> w, h |-> h]
Max(a, b) == IF a > b THEN a ELSE b
\* a rescaled() that keeps the image's own height
RescaledKeepingHeight(img, w, h) ==
    IF ~img.valid \/ (img.w = w /\ img.h = h) THEN img ELSE Image(w, img.h)

\* Image::rescaled: a null image, or one already of that size, is returned as is
Rescaled(img, w, h) ==
    IF ~img.valid \/ (img.w = w /\ img.h = h) THEN img ELSE Image(w, h)

\* a repaint request: repaint (x, y, w, h) of a strip, or repaint() of it all
Rect(x, y, w, h) == [all |-> FALSE, x |-> x, y |-> y, w |-> w, h |-> h]
FullRepaint == [all |-> TRUE, x |-> 0, y |-> 0, w |-> 0, h |-> 0]

\* ------------------------------------------------------ input samples
Widths    == 0 .. MaxWidth
Heights   == 0 .. MaxHeight
PointerXs == 0 .. MaxWidth
\* file lengths in seconds, and playback positions in half seconds
Lengths   == {D(l) : l \in 0 .. MaxLength}
Positions == {Ratio(p, 2) : p \in 0 .. 2 * MaxLength}
ZoomInputs   == {D(-1), D(0), D(1), D(2), D(MaxZoomRatio), D(MaxZoomRatio + 1)}
OffsetInputs == {D(0), Ratio(1, 2)}
VerticalZoomInputs == {D(1), D(2)}
Colours   == {"black", "green", "white"}
\* the reader the player offers: none, or one with this sample rate
NoReader  == D(-1)
Readers   == {NoReader, D(0), D(48000)}
Senders   == {"own", "other"}
\* the thumbnail's waveform image, at its native size
SourceImages == {Image(5, 1)}

VARIABLES
    zoomRatio, startOffsetRatio, verticalZoomRatio, showTransportCursor,
    backgroundColour, waveformColour,
    currentSampleRate, fileLength, oneOverFileLength,
    cachedImage, cursorImage,
    transportLineXCoord,
    currentMouseX, currentXScale, mouseCursor,
    timerRunning,
    width, height, mouseIsDown,
    thumbColours,
    repaints, seeks,
    alive, listening,
    drawn,
    ev

viewVars     == <<zoomRatio, startOffsetRatio, verticalZoomRatio,
                  showTransportCursor, backgroundColour, waveformColour>>
snapshotVars == <<currentSampleRate, fileLength, oneOverFileLength>>
imageVars    == <<cachedImage, cursorImage>>
mouseVars    == <<currentMouseX, currentXScale, mouseCursor>>
boundsVars   == <<width, height, mouseIsDown>>
\* alive: the object exists; listening: it is in audioThumbnailImage's
\* listener list
lifeVars     == <<alive, listening>>
vars == <<viewVars, snapshotVars, imageVars, transportLineXCoord, mouseVars,
          timerRunning, boundsVars, thumbColours, repaints, seeks, lifeVars,
          drawn, ev>>

\* what the last handler drew: nothing, unless it was paint()
NoDraw == [fill |-> "", image |-> <<>>, cursor |-> <<>>]

\* StateVariable<int>: the two-slot value behind transportLineXCoord
SVInit == [previous |-> 0, current |-> 0]
SVAssign(sv, v) == [previous |-> sv.current, current |-> v]
SVAreEqual(sv) == sv.previous = sv.current

\* the state the constructor leaves
Init ==
    /\ currentSampleRate = D(DefaultSampleRate)
    /\ zoomRatio = D(1)
    /\ startOffsetRatio = D(0)
    /\ verticalZoomRatio = D(1)
    /\ backgroundColour = "black"
    /\ waveformColour = "green"
    /\ showTransportCursor = TRUE
    /\ cachedImage = Image(1, 1)
    /\ cursorImage = NullImage
    /\ fileLength = Indeterminate
    /\ oneOverFileLength = Indeterminate
    /\ currentXScale = Indeterminate
    /\ currentMouseX = IndeterminateInt
    /\ transportLineXCoord = SVInit
    /\ mouseCursor = "Normal"
    /\ timerRunning = FALSE
    /\ width = 0
    /\ height = 0
    /\ mouseIsDown = FALSE
    /\ thumbColours = [background |-> "black", waveform |-> "green"]
    /\ repaints = <<>>
    /\ seeks = <<>>
    /\ alive = TRUE
    /\ listening = TRUE
    /\ drawn = NoDraw
    /\ ev = [op |-> "constructor", arg |-> <<>>]

\* ----------------------------------------------------------- setters
ZoomRatioRejected(z) == DLess(z, D(0)) \/ DGreater(z, D(MaxZoomRatio))

SetZoomRatio(z) ==
    /\ alive
    /\ zoomRatio' = IF ZoomRatioRejected(z) THEN D(1) ELSE z
    /\ repaints' = <<FullRepaint>>
    /\ seeks' = <<>>
    /\ ev' = [op |-> "setZoomRatio", arg |-> <<z>>]
    /\ UNCHANGED <<startOffsetRatio, verticalZoomRatio, showTransportCursor,
                   backgroundColour, waveformColour, snapshotVars, imageVars,
                   transportLineXCoord, mouseVars, timerRunning, boundsVars,
                   thumbColours>>
    /\ drawn' = NoDraw
    /\ UNCHANGED lifeVars

SetStartOffsetRatio(o) ==
    /\ alive
    /\ startOffsetRatio' = o
    /\ repaints' = <<FullRepaint>>
    /\ seeks' = <<>>
    /\ ev' = [op |-> "setStartOffsetRatio", arg |-> <<o>>]
    /\ UNCHANGED <<zoomRatio, verticalZoomRatio, showTransportCursor,
                   backgroundColour, waveformColour, snapshotVars, imageVars,
                   transportLineXCoord, mouseVars, timerRunning, boundsVars,
                   thumbColours>>
    /\ drawn' = NoDraw
    /\ UNCHANGED lifeVars

\* a setVerticalZoomRatio() that assigns zoomRatio as well
SetVerticalZoomRatioAlsoHorizontal(v) ==
    /\ alive
    /\ verticalZoomRatio' = v
    /\ zoomRatio' = v
    /\ repaints' = <<FullRepaint>>
    /\ seeks' = <<>>
    /\ ev' = [op |-> "setVerticalZoomRatio", arg |-> <<v>>]
    /\ UNCHANGED <<startOffsetRatio, showTransportCursor,
                   backgroundColour, waveformColour, snapshotVars, imageVars,
                   transportLineXCoord, mouseVars, timerRunning, boundsVars,
                   thumbColours>>
    /\ drawn' = NoDraw
    /\ UNCHANGED lifeVars

SetVerticalZoomRatio(v) ==
    /\ alive
    /\ verticalZoomRatio' = v
    /\ repaints' = <<FullRepaint>>
    /\ seeks' = <<>>
    /\ ev' = [op |-> "setVerticalZoomRatio", arg |-> <<v>>]
    /\ UNCHANGED <<zoomRatio, startOffsetRatio, showTransportCursor,
                   backgroundColour, waveformColour, snapshotVars, imageVars,
                   transportLineXCoord, mouseVars, timerRunning, boundsVars,
                   thumbColours>>
    /\ drawn' = NoDraw
    /\ UNCHANGED lifeVars

\* a setCursorDisplayed that starts the timer but never stops it
TimerNeverStopped(show, running) == show \/ running

\* startTimer (waveformUpdated, 40) / stopTimer (waveformUpdated)
TimerAfterSetCursorDisplayed(show, running) == show

SetCursorDisplayed(b) ==
    /\ alive
    /\ showTransportCursor' = b
    /\ timerRunning' = TimerAfterSetCursorDisplayed(b, timerRunning)
    /\ repaints' = <<>>
    /\ seeks' = <<>>
    /\ ev' = [op |-> "setCursorDisplayed", arg |-> <<b, timerRunning>>]
    /\ UNCHANGED <<zoomRatio, startOffsetRatio, verticalZoomRatio,
                   backgroundColour, waveformColour, snapshotVars, imageVars,
                   transportLineXCoord, mouseVars, boundsVars, thumbColours>>
    /\ drawn' = NoDraw
    /\ UNCHANGED lifeVars

SetBackgroundColour(c) ==
    /\ alive
    /\ backgroundColour' = c
    /\ thumbColours' = [thumbColours EXCEPT !.background = c]
    /\ repaints' = <<FullRepaint>>
    /\ seeks' = <<>>
    /\ ev' = [op |-> "setBackgroundColour", arg |-> <<c>>]
    /\ UNCHANGED <<zoomRatio, startOffsetRatio, verticalZoomRatio,
                   showTransportCursor, waveformColour, snapshotVars, imageVars,
                   transportLineXCoord, mouseVars, timerRunning, boundsVars>>
    /\ drawn' = NoDraw
    /\ UNCHANGED lifeVars

SetWaveformColour(c) ==
    /\ alive
    /\ waveformColour' = c
    /\ thumbColours' = [thumbColours EXCEPT !.waveform = c]
    /\ repaints' = <<FullRepaint>>
    /\ seeks' = <<>>
    /\ ev' = [op |-> "setWaveformColour", arg |-> <<c>>]
    /\ UNCHANGED <<zoomRatio, startOffsetRatio, verticalZoomRatio,
                   showTransportCursor, backgroundColour, snapshotVars, imageVars,
                   transportLineXCoord, mouseVars, timerRunning, boundsVars>>
    /\ drawn' = NoDraw
    /\ UNCHANGED lifeVars

\* ----------------------------------------------------------- resized
CursorImageFor(h) == Image(CursorWidth, Max(1, h))

\* a resized() that keeps the source image at its native size
CachedImageNotRescaled(old, finished, src, w, h) ==
    IF finished THEN src ELSE old

CachedImageFor(old, finished, src, w, h) ==
    IF finished THEN Rescaled(src, w, h) ELSE old

\* resized() with the component w x h; finished and src are what
\* audioThumbnailImage.hasFinishedLoading() and getImage() return
ResizedBody(w, h, finished, src) ==
    /\ cursorImage' = CursorImageFor(h)
    /\ cachedImage' = CachedImageFor(cachedImage, finished, src, w, h)

\* the component is given new bounds and the toolkit calls resized()
Resized(w, h, finished, src) ==
    /\ alive
    /\ width' = w
    /\ height' = h
    /\ ResizedBody(w, h, finished, src)
    /\ repaints' = <<>>
    /\ seeks' = <<>>
    /\ ev' = [op |-> "resized", arg |-> <<w, h, finished>>]
    /\ UNCHANGED <<viewVars, snapshotVars, transportLineXCoord, mouseVars,
                   timerRunning, mouseIsDown, thumbColours>>
    /\ drawn' = NoDraw
    /\ UNCHANGED lifeVars

\* ----------------------------------------------------- timerCallback
\* const int startPixel = w * startOffsetRatio;
StartPixel(w, offset) == ToInt(DMul(D(w), offset))

\* a cursor pixel that multiplies by the zoom ratio instead of dividing
CursorPixelTimesZoom(startPixel, w, oneOver, position, zoom) ==
    ToInt(DAdd(D(startPixel), DMul(DMul(DMul(D(w), oneOver), position), zoom)))

\* startPixel + ((w * oneOverFileLength * position) / zoomRatio), as an int
CursorPixel(startPixel, w, oneOver, position, zoom) ==
    ToInt(DAdd(D(startPixel), DDiv(DMul(DMul(D(w), oneOver), position), zoom)))

\* a timerCallback that repaints only where the line now is
DirtyRectsNewOnly(sv, h) ==
    IF SVAreEqual(sv) THEN <<>>
    ELSE <<Rect(sv.current - 2, 0, DirtyWidth, h)>>

\* the two strips repainted when the line has moved
DirtyRects(sv, h) ==
    IF SVAreEqual(sv) THEN <<>>
    ELSE <<Rect(sv.previous - 2, 0, DirtyWidth, h),
           Rect(sv.current - 2, 0, DirtyWidth, h)>>

\* the waveformUpdated timer fires; position is getCurrentPosition()
TimerCallback(position) ==
    /\ timerRunning
    /\ \E oneOver \in ReadDouble(oneOverFileLength) :
       \E startPixel \in StartPixel(width, startOffsetRatio) :
       \E x \in CursorPixel(startPixel, width, oneOver, position, zoomRatio) :
          /\ transportLineXCoord' = SVAssign(transportLineXCoord, x)
          /\ repaints' = DirtyRects(transportLineXCoord', height)
    /\ seeks' = <<>>
    /\ ev' = [op |-> "timerCallback", arg |-> <<position>>]
    /\ UNCHANGED <<viewVars, snapshotVars, imageVars, mouseVars, timerRunning,
                   boundsVars, thumbColours>>
    /\ drawn' = NoDraw
    /\ UNCHANGED lifeVars

\* ------------------------------------------------------ imageChanged
ReaderIsValid(reader) == reader # NoReader /\ DGreater(reader, D(0))

\* an imageChanged that starts the timer without looking at showTransportCursor
TimerStartedWhenHidden(valid, show, running) ==
    IF valid THEN TRUE ELSE running

\* the timer after imageChanged: started when a valid reader is found and
\* the cursor is shown, left alone otherwise
TimerAfterImageChanged(valid, show, running) ==
    IF valid /\ show THEN TRUE ELSE running

ImageChanged(sender, reader, length) ==
    /\ listening
    /\ IF sender = "own"
       THEN /\ cachedImage' = NullImage
            /\ IF ReaderIsValid(reader)
               THEN /\ currentSampleRate' = reader
                    /\ fileLength' = length
                    /\ oneOverFileLength' = DDiv(D(1), length)
               ELSE /\ currentSampleRate' = D(DefaultSampleRate)
                    /\ fileLength' = D(0)
                    /\ oneOverFileLength' = DDiv(D(1), D(0))
            /\ timerRunning' = TimerAfterImageChanged(ReaderIsValid(reader),
                                   showTransportCursor, timerRunning)
       ELSE UNCHANGED <<cachedImage, snapshotVars, timerRunning>>
    /\ repaints' = <<>>
    /\ seeks' = <<>>
    /\ ev' = [op |-> "imageChanged", arg |-> <<sender, reader, length, timerRunning>>]
    /\ UNCHANGED <<viewVars, cursorImage, transportLineXCoord, mouseVars,
                   boundsVars, thumbColours>>
    /\ drawn' = NoDraw
    /\ UNCHANGED lifeVars

\* an imageUpdated() that fits the source's bitmap to the component
ImageUpdatedRescaled(sender, src) ==
    /\ listening
    /\ cachedImage' = Rescaled(src, width, height)
    /\ repaints' = <<FullRepaint>>
    /\ seeks' = <<>>
    /\ ev' = [op |-> "imageUpdated", arg |-> <<sender, src>>]
    /\ UNCHANGED <<viewVars, snapshotVars, cursorImage, transportLineXCoord,
                   mouseVars, timerRunning, boundsVars, thumbColours>>
    /\ drawn' = NoDraw
    /\ UNCHANGED lifeVars

ImageUpdated(sender, src) ==
    /\ listening
    /\ cachedImage' = src
    /\ repaints' = <<FullRepaint>>
    /\ seeks' = <<>>
    /\ ev' = [op |-> "imageUpdated", arg |-> <<sender, src>>]
    /\ UNCHANGED <<viewVars, snapshotVars, cursorImage, transportLineXCoord,
                   mouseVars, timerRunning, boundsVars, thumbColours>>
    /\ drawn' = NoDraw
    /\ UNCHANGED lifeVars

ImageFinished(sender, finished, src) ==
    /\ listening
    /\ ResizedBody(width, height, finished, src)
    /\ repaints' = <<>>
    /\ seeks' = <<>>
    /\ ev' = [op |-> "imageFinished", arg |-> <<sender, finished>>]
    /\ UNCHANGED <<viewVars, snapshotVars, transportLineXCoord, mouseVars,
                   timerRunning, boundsVars, thumbColours>>
    /\ drawn' = NoDraw
    /\ UNCHANGED lifeVars

\* ------------------------------------------------------------- mouse
\* a scale that divides by the zoom ratio instead of multiplying
XScaleOverZoom(length, w, zoom) == DDiv(DDiv(length, D(w)), zoom)

\* currentXScale = (fileLength / w) * zoomRatio
XScale(length, w, zoom) == DMul(DDiv(length, D(w)), zoom)

\* a position that forgets the start offset
SeekPositionIgnoringOffset(scale, x, startPixel) == DMul(scale, D(x))

\* position = currentXScale * (currentMouseX - startPixel)
SeekPosition(scale, x, startPixel) == DMul(scale, D(x - startPixel))

\* for the record of a press: the position of the tick that came
\* immediately before it, <<>> when the last call was not a tick
TickJustBefore == IF ev.op = "timerCallback" THEN ev.arg ELSE <<>>

MouseDown(x) ==
    /\ alive
    /\ ~mouseIsDown
    /\ mouseIsDown' = TRUE
    /\ IF showTransportCursor
       THEN /\ mouseCursor' = "IBeam"
            /\ currentMouseX' = <<x>>
            /\ \E length \in ReadDouble(fileLength) :
               \E startPixel \in StartPixel(width, startOffsetRatio) :
                  /\ currentXScale' = XScale(length, width, zoomRatio)
                  /\ seeks' = <<SeekPosition(currentXScale', x, startPixel)>>
            /\ repaints' = <<FullRepaint>>
       ELSE /\ UNCHANGED mouseVars
            /\ seeks' = <<>>
            /\ repaints' = <<>>
    /\ ev' = [op |-> "mouseDown", arg |-> <<x, TickJustBefore>>]
    /\ UNCHANGED <<viewVars, snapshotVars, imageVars, transportLineXCoord,
                   timerRunning, width, height, thumbColours>>
    /\ drawn' = NoDraw
    /\ UNCHANGED lifeVars

MouseUp ==
    /\ alive
    /\ mouseIsDown
    /\ mouseIsDown' = FALSE
    /\ mouseCursor' = IF showTransportCursor THEN "Normal" ELSE mouseCursor
    /\ repaints' = <<>>
    /\ seeks' = <<>>
    /\ ev' = [op |-> "mouseUp", arg |-> <<>>]
    /\ UNCHANGED <<viewVars, snapshotVars, imageVars, transportLineXCoord,
                   currentMouseX, currentXScale, timerRunning, width, height,
                   thumbColours>>
    /\ drawn' = NoDraw
    /\ UNCHANGED lifeVars

\* a mouseDrag() that does not look at showTransportCursor
MouseDragUnguarded(x) ==
    /\ alive
    /\ mouseIsDown
    /\ currentMouseX' = <<x>>
    /\ \E scale \in ReadDouble(currentXScale) :
       \E startPixel \in StartPixel(width, startOffsetRatio) :
          seeks' = <<SeekPosition(scale, x, startPixel)>>
    /\ repaints' = <<>>
    /\ ev' = [op |-> "mouseDrag", arg |-> <<x>>]
    /\ UNCHANGED <<viewVars, snapshotVars, imageVars, transportLineXCoord,
                   currentXScale, mouseCursor, timerRunning, boundsVars,
                   thumbColours>>
    /\ drawn' = NoDraw
    /\ UNCHANGED lifeVars

MouseDrag(x) ==
    /\ alive
    /\ mouseIsDown
    /\ IF showTransportCursor
       THEN /\ currentMouseX' = <<x>>
            /\ \E scale \in ReadDouble(currentXScale) :
               \E startPixel \in StartPixel(width, startOffsetRatio) :
                  seeks' = <<SeekPosition(scale, x, startPixel)>>
       ELSE /\ UNCHANGED currentMouseX
            /\ seeks' = <<>>
    /\ repaints' = <<>>
    /\ ev' = [op |-> "mouseDrag", arg |-> <<x>>]
    /\ UNCHANGED <<viewVars, snapshotVars, imageVars, transportLineXCoord,
                   currentXScale, mouseCursor, timerRunning, boundsVars,
                   thumbColours>>
    /\ drawn' = NoDraw
    /\ UNCHANGED lifeVars

\* ------------------------------------------------------------- paint
\* a paint() that samples cachedImage.getWidth() / zoomRatio columns
SourceWidthOverZoom(cachedW, zoom) == ToInt(DDiv(D(cachedW), zoom))

\* cachedImage.getWidth() * zoomRatio, converted to drawImage's int sourceWidth
SourceWidth(cachedW, zoom) == ToInt(DMul(D(cachedW), zoom))

\* const double newHeight = verticalZoomRatio * h;
NewHeight(vertical, h) == DMul(vertical, D(h))

\* const int startPixelY = (h * 0.5) - (newHeight * 0.5);
StartPixelY(h, newHeight) ==
    ToInt(DSub(DMul(D(h), Ratio(1, 2)), DMul(newHeight, Ratio(1, 2))))

\* a paint() that makes a missing cachedImage anew at the component's size
CachedImageRebuiltByPaint(img) ==
    IF img.valid THEN img ELSE Image(Max(1, width), Max(1, height))

\* paint() draws cachedImage and never assigns it
CachedImageAfterPaint(img) == img

\* the toolkit calls paint(); drawn records fillAll, drawImage (which draws
\* nothing for an invalid image) and drawImageAt for the cursor
Paint ==
    /\ alive
    /\ \E startPixel \in StartPixel(width, startOffsetRatio) :
       \E startPixelY \in StartPixelY(height, NewHeight(verticalZoomRatio, height)) :
       \E destH \in ToInt(NewHeight(verticalZoomRatio, height)) :
       \E srcW \in SourceWidth(cachedImage.w, zoomRatio) :
          drawn' = [fill |-> backgroundColour,
                    image |-> IF cachedImage.valid
                              THEN <<startPixel, startPixelY, width, destH,
                                     0, 0, srcW, cachedImage.h>>
                              ELSE <<>>,
                    cursor |-> IF showTransportCursor
                               THEN <<transportLineXCoord.current - 1, 0>>
                               ELSE <<>>]
    /\ cachedImage' = CachedImageAfterPaint(cachedImage)
    /\ repaints' = <<>>
    /\ seeks' = <<>>
    /\ ev' = [op |-> "paint", arg |-> <<>>]
    /\ UNCHANGED <<viewVars, snapshotVars, cursorImage, transportLineXCoord,
                   mouseVars, timerRunning, boundsVars, thumbColours, lifeVars>>

\* -------------------------------------------------------- destructor
\* a destructor that leaves the waveformUpdated timer as it is
TimerLeftByDestructor(running) == running

\* stopTimer (waveformUpdated);
TimerAfterDestructor(running) == FALSE

\* ~PositionableWaveDisplay(): removeListener, then stopTimer
Destructor ==
    /\ alive
    /\ listening' = FALSE
    /\ timerRunning' = TimerAfterDestructor(timerRunning)
    /\ alive' = FALSE
    /\ repaints' = <<>>
    /\ seeks' = <<>>
    /\ drawn' = NoDraw
    /\ ev' = [op |-> "destructor", arg |-> <<timerRunning>>]
    /\ UNCHANGED <<viewVars, snapshotVars, imageVars, transportLineXCoord,
                   mouseVars, boundsVars, thumbColours>>

\* ------------------------------------------------------ specification
\* Every handler with every sampled input.
Next ==
    \/ \E z \in ZoomInputs : SetZoomRatio(z)
    \/ \E o \in OffsetInputs : SetStartOffsetRatio(o)
    \/ \E v \in VerticalZoomInputs : SetVerticalZoomRatio(v)
    \/ \E b \in BOOLEAN : SetCursorDisplayed(b)
    \/ \E c \in Colours : SetBackgroundColour(c)
    \/ \E c \in Colours : SetWaveformColour(c)
    \/ \E w \in Widths, h \in Heights, f \in BOOLEAN, src \in SourceImages :
          Resized(w, h, f, src)
    \/ \E p \in Positions : TimerCallback(p)
    \/ \E s \in Senders, r \in Readers, l \in Lengths : ImageChanged(s, r, l)
    \/ \E s \in Senders, src \in SourceImages : ImageUpdated(s, src)
    \/ \E s \in Senders, f \in BOOLEAN, src \in SourceImages :
          ImageFinished(s, f, src)
    \/ \E x \in PointerXs : MouseDown(x)
    \/ MouseUp
    \/ \E x \in PointerXs : MouseDrag(x)
    \/ Paint
    \/ Destructor

Spec == Init /\ [][Next]_vars

\* The scenario specifications below run the same handlers from the same
\* constructed state, each with the handlers and inputs its properties are
\* about.

\* The poller: cursor display, source notifications, bounds and pointer.
NextPoller ==
    \/ \E b \in BOOLEAN : SetCursorDisplayed(b)
    \/ \E w \in {0, MaxWidth}, f \in BOOLEAN, src \in SourceImages :
          Resized(w, MaxHeight, f, src)
    \/ \E s \in Senders, r \in Readers, l \in Lengths : ImageChanged(s, r, l)
    \/ \E s \in Senders, src \in SourceImages : ImageUpdated(s, src)
    \/ \E s \in Senders, f \in BOOLEAN, src \in SourceImages :
          ImageFinished(s, f, src)
    \/ MouseDown(MaxWidth)
    \/ MouseUp
    \/ MouseDrag(MaxWidth)

SpecPoller == Init /\ [][NextPoller]_vars

\* a determinate, finite, positive file length: a valid file is loaded
ValidFileLength == fileLength # Indeterminate /\ IsFinite(fileLength)
                   /\ DGreater(fileLength, D(0))

\* C1: the poller is never running while fileLengthSeconds == 0.
C1_PollerNeverRunsOnEmptyFile == ~(timerRunning /\ fileLength = D(0))

\* C2: the poller is never running while showCursor is false.
C2_PollerOnlyRunsWhileCursorShown == timerRunning => showTransportCursor

\* an image-changed notification from the own source with a valid reader
\* arrived while the cursor was hidden, and the poller stayed stopped
C2_Witness ==
    /\ ev.op = "imageChanged" /\ ev.arg[1] = "own" /\ ReaderIsValid(ev.arg[2])
    /\ ~showTransportCursor /\ ~timerRunning /\ ValidFileLength

\* C3: after an image-changed notification from the own source with no
\* valid reader, sampleRate is 44100, fileLength is 0 and the poller is
\* stopped, whatever it was before.
C3_NoReaderResetsAndStops ==
    (ev.op = "imageChanged" /\ ev.arg[1] = "own" /\ ~ReaderIsValid(ev.arg[2]))
        => /\ currentSampleRate = D(DefaultSampleRate)
           /\ fileLength = D(0)
           /\ ~timerRunning

\* C4: with a valid file loaded, setCursorDisplayed(true) leaves the poller
\* running and setCursorDisplayed(false) leaves it stopped, whatever it was
\* before the call.
C4_SetCursorDisplayedSetsPoller ==
    (ev.op = "setCursorDisplayed" /\ ValidFileLength)
        => timerRunning = ev.arg[1]

\* setCursorDisplayed(false) on a valid file stopped a running poller
C4_Witness ==
    /\ ev.op = "setCursorDisplayed" /\ ev.arg = <<FALSE, TRUE>>
    /\ ValidFileLength /\ ~timerRunning

\* The tick: zoom, offset and bounds change, files come and go, the timer
\* fires at every sampled playback position.
NextTick ==
    \/ \E z \in {D(0), D(1), D(2)} : SetZoomRatio(z)
    \/ \E o \in OffsetInputs : SetStartOffsetRatio(o)
    \/ \E w \in Widths, h \in {0, MaxHeight}, src \in SourceImages :
          Resized(w, h, FALSE, src)
    \/ \E p \in Positions : TimerCallback(p)
    \/ \E l \in {D(0), D(MaxLength)} : ImageChanged("own", D(48000), l)

SpecTick == Init /\ [][NextTick]_vars

\* C6: a tick that leaves the cursor pixel where it was requests no redraw;
\* one that moves it from x0 to x1 requests exactly the two strips
\* [x0-2, x0+3) and [x1-2, x1+3), 5 wide and as high as the viewport, and
\* no repaint of the whole widget.
C6_TickRepaintsOnlyTheMovedCursor ==
    [][ev'.op = "timerCallback" =>
         LET x0 == transportLineXCoord.current
             x1 == transportLineXCoord'.current
         IN  IF x1 = x0
             THEN repaints' = <<>>
             ELSE repaints' =
                    <<[all |-> FALSE, x |-> x0 - 2, y |-> 0, w |-> 5, h |-> height],
                      [all |-> FALSE, x |-> x1 - 2, y |-> 0, w |-> 5, h |-> height]>>
       ]_vars

\* a tick on a valid file moved the cursor in a viewport of positive height
C6_Witness ==
    /\ ev.op = "timerCallback" /\ ValidFileLength /\ DGreater(zoomRatio, D(0))
    /\ transportLineXCoord.previous # transportLineXCoord.current
    /\ Len(repaints) = 2 /\ height > 0

\* the exact value of the spec's pixelForPosition at the ticked position
ExactPixelForPosition(position) ==
    DAdd(DMul(D(width), startOffsetRatio),
         DDiv(DDiv(DMul(D(width), position), fileLength), zoomRatio))

\* C7 as stated: on a tick with fileLengthSeconds > 0 the cursor pixel X is
\* width*startOffsetRatio + (width*position/fileLength)/zoomRatio.  (Stated
\* where the quotient is defined, zoomRatio > 0.)
C7_CursorPixelIsExact ==
    (ev.op = "timerCallback" /\ ValidFileLength /\ DGreater(zoomRatio, D(0)))
        => D(transportLineXCoord.current) = ExactPixelForPosition(ev.arg[1])

\* C7 amended: the offset in pixels is truncated to an int, and so is the
\* sum: X = trunc(trunc(width*startOffsetRatio)
\*                + (width * (1/fileLength) * position) / zoomRatio);
\* the spec's scenarios give 400 and 200.
C7_CursorPixelIsTruncated ==
    /\ (ev.op = "timerCallback" /\ ValidFileLength /\ DGreater(zoomRatio, D(0)))
        => transportLineXCoord.current =
             Trunc(DAdd(D(Trunc(DMul(D(width), startOffsetRatio))),
                        DDiv(DMul(DMul(D(width), DDiv(D(1), fileLength)), ev.arg[1]),
                             zoomRatio)))
    /\ \A sp \in StartPixel(800, D(0)) :
          /\ CursorPixel(sp, 800, DDiv(D(1), D(100)), D(50), D(1)) = {400}
          /\ CursorPixel(sp, 800, DDiv(D(1), D(100)), D(50), D(2)) = {200}

\* a tick on a valid file put the cursor on a pixel left of the exact value
C7_Witness ==
    /\ ev.op = "timerCallback" /\ ValidFileLength /\ DGreater(zoomRatio, D(0))
    /\ width > 0
    /\ DLess(D(transportLineXCoord.current), ExactPixelForPosition(ev.arg[1]))
    /\ transportLineXCoord.current > 0

\* The press: zoom, offset and bounds change, files come and go, the pointer
\* is pressed at every sampled pixel.
NextPress ==
    \/ \E z \in ZoomInputs : SetZoomRatio(z)
    \/ \E o \in OffsetInputs : SetStartOffsetRatio(o)
    \/ \E w \in Widths, src \in SourceImages : Resized(w, MaxHeight, FALSE, src)
    \/ \E l \in Lengths : ImageChanged("own", D(48000), l)
    \/ \E x \in PointerXs : MouseDown(x)
    \/ MouseUp

SpecPress == Init /\ [][NextPress]_vars

\* C5: setZoomRatio(z) stores z when 0 < z <= 10000 and 1.0 otherwise, so
\* zoomRatio is never 0.
C5_SetZoomRatioRejectsZero ==
    /\ zoomRatio # D(0)
    /\ ev.op = "setZoomRatio" =>
         zoomRatio = IF DGreater(ev.arg[1], D(0)) /\ ~DGreater(ev.arg[1], D(10000))
                     THEN ev.arg[1] ELSE D(1)

\* C8 as stated: a press at X with the cursor displayed issues one seek to
\* ((fileLength / width) * zoomRatio) * (X - width*startOffsetRatio).
C8_SeekIsExact ==
    (ev.op = "mouseDown" /\ showTransportCursor /\ fileLength # Indeterminate)
        => seeks = <<DMul(DMul(DDiv(fileLength, D(width)), zoomRatio),
                          DSub(D(ev.arg[1]), DMul(D(width), startOffsetRatio)))>>

\* C8 amended: the offset in pixels is truncated to an int before it is
\* subtracted: the one seek goes to ((fileLength / width) * zoomRatio)
\* * (X - trunc(width*startOffsetRatio)); the spec's scenario gives 50.
C8_SeekUsesTruncatedOffset ==
    /\ (ev.op = "mouseDown" /\ showTransportCursor /\ fileLength # Indeterminate)
        => seeks = <<DMul(DMul(DDiv(fileLength, D(width)), zoomRatio),
                          D(ev.arg[1] - Trunc(DMul(D(width), startOffsetRatio))))>>
    /\ \A sp \in StartPixel(800, D(0)) :
          SeekPosition(XScale(D(100), 800, D(1)), 400, sp) = D(50)

\* a press on a valid file where width*startOffsetRatio is not whole, at a
\* zoom other than 1
C8_Witness ==
    /\ ev.op = "mouseDown" /\ showTransportCursor /\ ValidFileLength
    /\ width > 0 /\ zoomRatio = D(2)
    /\ D(Trunc(DMul(D(width), startOffsetRatio))) # DMul(D(width), startOffsetRatio)
    /\ Len(seeks) = 1 /\ IsFinite(seeks[1]) /\ DGreater(seeks[1], D(0))

\* The round trip: the timer fires, and the pointer is pressed on the pixel
\* the cursor is on.
NextSeek ==
    \/ \E z \in {D(1), D(2)} : SetZoomRatio(z)
    \/ \E o \in OffsetInputs \cup {Ratio(-1, 2)} : SetStartOffsetRatio(o)
    \/ \E w \in {MaxWidth - 1, MaxWidth}, src \in SourceImages :
          Resized(w, MaxHeight, FALSE, src)
    \/ \E p \in Positions : TimerCallback(p)
    \/ ImageChanged("own", D(48000), D(MaxLength))
    \/ MouseDown(transportLineXCoord.current)

SpecSeek == Init /\ [][NextSeek]_vars

\* a press on the cursor of a valid file, in a viewport of positive width
\* at a positive zoom, immediately after the tick that placed the cursor
\* for a position in [0, fileLength]
PressOnTickedPixel ==
    /\ ev.op = "mouseDown" /\ showTransportCursor /\ ValidFileLength
    /\ width > 0 /\ DGreater(zoomRatio, D(0))
    /\ ev.arg[2] # <<>>
    /\ ~DGreater(ev.arg[2][1], fileLength)
    /\ ev.arg[1] = transportLineXCoord.current

\* C9 as stated: pressing at the pixel the tick computes for a position in
\* [0, fileLength] seeks to that position.
C9_PressInvertsTick ==
    PressOnTickedPixel => seeks = <<ev.arg[2][1]>>

\* C9 amended: pressing at the pixel the tick computes for a position in
\* [0, fileLength] seeks to within one pixel's worth of time,
\* (fileLength / width) * zoomRatio, of that position.
C9_PressInvertsTickWithinOnePixel ==
    PressOnTickedPixel
        => /\ Len(seeks) = 1
           /\ DLess(DAbs(DSub(seeks[1], ev.arg[2][1])),
                    DMul(DDiv(fileLength, D(width)), zoomRatio))

\* such a press, where the seek does not return to the ticked position
C9_Witness ==
    /\ PressOnTickedPixel
    /\ transportLineXCoord.current > 0
    /\ seeks # <<ev.arg[2][1]>>

\* The images: bounds change and the source notifies, finished or not.
NextImage ==
    \/ \E w \in Widths, h \in Heights, f \in BOOLEAN, src \in SourceImages :
          Resized(w, h, f, src)
    \/ \E s \in Senders, r \in {NoReader, D(48000)} :
          ImageChanged(s, r, D(MaxLength))
    \/ \E s \in Senders, src \in SourceImages : ImageUpdated(s, src)
    \/ \E s \in Senders, f \in BOOLEAN, src \in SourceImages :
          ImageFinished(s, f, src)

SpecImage == Init /\ [][NextImage]_vars

\* C10 as stated: after a resize to (newWidth, newHeight) the cursor glyph
\* is 3 wide and exactly newHeight high and, if the source has finished
\* loading, the cached bitmap is newWidth x newHeight.
C10_ResizeFitsGlyphAndBitmap ==
    ev.op = "resized" =>
        /\ cursorImage.valid /\ cursorImage.w = 3 /\ cursorImage.h = ev.arg[2]
        /\ ev.arg[3] => (cachedImage.valid /\ cachedImage.w = ev.arg[1]
                            /\ cachedImage.h = ev.arg[2])

\* C10 amended: the cursor glyph is 3 wide and newHeight high, but 1 high
\* when newHeight is 0; the cached bitmap is newWidth x newHeight.
C10_ResizeFitsGlyphAtLeastOneHigh ==
    ev.op = "resized" =>
        /\ width = ev.arg[1] /\ height = ev.arg[2]
        /\ cursorImage.valid /\ cursorImage.w = 3
        /\ cursorImage.h = (IF ev.arg[2] = 0 THEN 1 ELSE ev.arg[2])
        /\ ev.arg[3] => (cachedImage.valid /\ cachedImage.w = ev.arg[1]
                            /\ cachedImage.h = ev.arg[2])

\* a resize to height 0 with the source finished: a glyph 1 high
C10_Witness ==
    /\ ev.op = "resized" /\ ev.arg[1] > 0 /\ ev.arg[2] = 0 /\ ev.arg[3]
    /\ cursorImage.h = 1 /\ cachedImage = Image(ev.arg[1], 0)

\* the last handler was a resized() or an imageFinished() that found the
\* source finished loading
RebuiltCachedImage ==
    \/ ev.op = "resized" /\ ev.arg[3]
    \/ ev.op = "imageFinished" /\ ev.arg[2]

\* C11 as stated: in every reachable state the cached bitmap is absent or
\* has exactly the size of the viewport.
C11_CachedImageFitsViewport ==
    cachedImage.valid => (cachedImage.w = width /\ cachedImage.h = height)

\* C11 amended: right after a resized() or an imageFinished() that found the
\* source finished loading, the cached bitmap has exactly the size of the
\* viewport.
C11_RebuiltCachedImageFitsViewport ==
    RebuiltCachedImage =>
        (cachedImage.w = width /\ cachedImage.h = height)

\* an imageFinished() rebuilt the bitmap at the size of a non-empty viewport
C11_Witness ==
    /\ ev.op = "imageFinished" /\ ev.arg[2]
    /\ width > 0 /\ height > 1
    /\ cachedImage = Image(width, height)

\* C12 as stated: a bitmap rebuilt while the viewport is 0 wide or 0 high is
\* at least 1 x 1; no image of width 0 or height 0 is ever made.
C12_RebuiltCachedImageAtLeastOneByOne ==
    /\ RebuiltCachedImage => (cachedImage.w >= 1 /\ cachedImage.h >= 1)
    /\ cachedImage.valid => (cachedImage.w >= 1 /\ cachedImage.h >= 1)
    /\ cursorImage.valid => (cursorImage.w >= 1 /\ cursorImage.h >= 1)

\* C20: imageUpdated() stores the source's bitmap as it is, at its own size,
\* asks for a full repaint, and changes nothing else: view state, playback
\* snapshot, cursor position, cursor glyph, pointer state and timer stay.
C20_ImageUpdatedOnlyReplacesBitmap ==
    [][ev'.op = "imageUpdated" =>
          /\ cachedImage' = ev'.arg[2]
          /\ repaints' = <<FullRepaint>>
          /\ seeks' = <<>>
          /\ UNCHANGED <<viewVars, snapshotVars, cursorImage,
                         transportLineXCoord, mouseVars, timerRunning,
                         boundsVars, thumbColours, lifeVars>>]_vars

\* an imageUpdated() left a bitmap that is not the size of the viewport
C20_Witness ==
    /\ ev.op = "imageUpdated"
    /\ width > 0 /\ height > 0
    /\ cachedImage \in SourceImages
    /\ cachedImage # Image(width, height)
    /\ repaints = <<FullRepaint>>

\* C13: while showTransportCursor is false, mouseDown, mouseDrag and mouseUp
\* do nothing: no seek, no repaint, and the mouse cursor, the stored press X,
\* the stored scale and every other member stay as they were.
C13_PointerEventsIgnoredWhileCursorHidden ==
    [][(ev'.op \in {"mouseDown", "mouseDrag", "mouseUp"}
            /\ ~showTransportCursor) =>
          /\ seeks' = <<>>
          /\ repaints' = <<>>
          /\ UNCHANGED <<mouseVars, viewVars, snapshotVars, imageVars,
                         transportLineXCoord, timerRunning, width, height,
                         thumbColours>>]_vars

\* a button released while the cursor is hidden: the I-beam of the press
\* made before hiding is still there, and so is the scale it stored
C13_Witness ==
    /\ ev.op = "mouseUp" /\ ~showTransportCursor
    /\ mouseCursor = "IBeam" /\ currentXScale # Indeterminate

\* The setters: every view-state setter with every sampled argument.
NextSetters ==
    \/ \E z \in ZoomInputs : SetZoomRatio(z)
    \/ \E o \in OffsetInputs : SetStartOffsetRatio(o)
    \/ \E v \in VerticalZoomInputs : SetVerticalZoomRatio(v)
    \/ \E b \in BOOLEAN : SetCursorDisplayed(b)
    \/ \E c \in Colours : SetBackgroundColour(c)
    \/ \E c \in Colours : SetWaveformColour(c)

SpecSetters == Init /\ [][NextSetters]_vars

\* C14 as stated: every call of setZoomRatio, setStartOffsetRatio,
\* setVerticalZoomRatio, setCursorDisplayed, setBackgroundColour and
\* setWaveformColour asks for a full repaint.
C14_EverySetterRepaints ==
    ev.op \in {"setZoomRatio", "setStartOffsetRatio", "setVerticalZoomRatio",
               "setCursorDisplayed", "setBackgroundColour",
               "setWaveformColour"}
        => repaints = <<FullRepaint>>

\* The teardown: the poller is started and stopped, the source notifies, the
\* timer fires, and the object is destroyed.
NextTeardown ==
    \/ \E b \in BOOLEAN : SetCursorDisplayed(b)
    \/ \E f \in BOOLEAN, src \in SourceImages :
          Resized(MaxWidth, MaxHeight, f, src)
    \/ \E s \in Senders, r \in {NoReader, D(48000)} :
          ImageChanged(s, r, D(MaxLength))
    \/ \E src \in SourceImages : ImageUpdated("own", src)
    \/ \E f \in BOOLEAN, src \in SourceImages : ImageFinished("own", f, src)
    \/ \E p \in {D(0), D(MaxLength)} : TimerCallback(p)
    \/ Destructor

SpecTeardown == Init /\ [][NextTeardown]_vars

\* C15: the destructor takes the object out of the source's listener list
\* and leaves the timer stopped, and once it has run no imageChanged,
\* imageUpdated, imageFinished or timerCallback reaches the object.
C15_NothingDeliveredAfterDestructor ==
    [][/\ ~alive' => (~listening' /\ ~timerRunning')
       /\ ~alive => ev'.op \notin {"imageChanged", "imageUpdated",
                                   "imageFinished", "timerCallback"}]_vars

\* the destructor ran while the timer was running
C15_Witness ==
    /\ ev.op = "destructor" /\ ev.arg[1]
    /\ ~alive /\ ~listening /\ ~timerRunning

\* The painting: zoom, bounds, source notifications and paint.
PaintZoomInputs == ZoomInputs \cup {Ratio(1, 2)}

NextPaint ==
    \/ \E z \in PaintZoomInputs : SetZoomRatio(z)
    \/ \E v \in VerticalZoomInputs : SetVerticalZoomRatio(v)
    \/ \E w \in Widths, h \in {0, MaxHeight}, f \in BOOLEAN,
          src \in SourceImages :
          Resized(w, h, f, src)
    \/ \E r \in {NoReader, D(48000)} : ImageChanged("own", r, D(MaxLength))
    \/ \E src \in SourceImages : ImageUpdated("own", src)
    \/ \E f \in BOOLEAN, src \in SourceImages : ImageFinished("own", f, src)
    \/ Paint

SpecPaint == Init /\ [][NextPaint]_vars

\* paint() drew the cached bitmap with a zoom ratio in (0, 10000]
PaintedBitmap ==
    /\ ev.op = "paint" /\ cachedImage.valid
    /\ DGreater(zoomRatio, D(0))

\* C16 as stated: paint() takes the first cachedWidth / zoomRatio columns of
\* the cached bitmap, at its full height, and stretches them over the width
\* of the viewport.
C16_PaintSamplesWidthOverZoom ==
    PaintedBitmap =>
        /\ drawn.image[3] = width
        /\ drawn.image[5] = 0 /\ drawn.image[6] = 0
        /\ drawn.image[7] \in SourceWidthOverZoom(cachedImage.w, zoomRatio)
        /\ drawn.image[8] = cachedImage.h

\* C16 amended: paint() takes the first trunc(cachedWidth * zoomRatio)
\* columns of the cached bitmap, at its full height, and stretches them over
\* the width of the viewport.
C16_PaintSamplesWidthTimesZoom ==
    PaintedBitmap =>
        /\ drawn.image[3] = width
        /\ drawn.image[5] = 0 /\ drawn.image[6] = 0
        /\ drawn.image[7] = Trunc(DMul(D(cachedImage.w), zoomRatio))
        /\ drawn.image[8] = cachedImage.h

\* a 5 wide bitmap painted at zoom 2 over a non-empty viewport: 10 columns
\* are asked for
C16_Witness ==
    /\ PaintedBitmap /\ zoomRatio = D(2)
    /\ cachedImage.w = 5 /\ width > 0 /\ height > 0
    /\ drawn.image[7] = 10

\* C17 as stated: after imageChanged() made the cached bitmap null, the next
\* paint() leaves a valid cached bitmap.
C17_PaintRebuildsCachedImage ==
    ev.op = "paint" => cachedImage.valid

\* C17 amended: paint() never changes the cached bitmap and draws no bitmap
\* while it is null; a null cached bitmap becomes valid only by
\* imageUpdated(), resized() or imageFinished().
C17_PaintKeepsCachedImage ==
    [][/\ ev'.op = "paint" =>
             /\ cachedImage' = cachedImage
             /\ ~cachedImage.valid => drawn'.image = <<>>
       /\ (~cachedImage.valid /\ cachedImage'.valid) =>
             ev'.op \in {"imageUpdated", "resized", "imageFinished"}]_vars

\* a paint() right after imageChanged(): the bitmap is still null and only
\* the background and the cursor were drawn
C17_Witness ==
    /\ ev.op = "paint" /\ ~cachedImage.valid
    /\ width > 0 /\ height > 0
    /\ drawn.fill = backgroundColour /\ drawn.image = <<>>

\* The dragging: zoom, offset, bounds and file change between a press and
\* the drags that follow it, with the cursor display switched on and off.
NextDrag ==
    \/ \E z \in {D(1), D(2)} : SetZoomRatio(z)
    \/ \E o \in OffsetInputs : SetStartOffsetRatio(o)
    \/ \E b \in BOOLEAN : SetCursorDisplayed(b)
    \/ \E w \in {MaxWidth - 1, MaxWidth}, src \in SourceImages :
          Resized(w, MaxHeight, FALSE, src)
    \/ \E l \in {D(1), D(MaxLength)} : ImageChanged("own", D(48000), l)
    \/ \E x \in {0, MaxWidth} : MouseDown(x)
    \/ MouseUp
    \/ \E x \in PointerXs : MouseDrag(x)

SpecDrag == Init /\ [][NextDrag]_vars

\* C18 as stated: a drag while showTransportCursor is true makes exactly one
\* seek, to scale * (X - width * startOffsetRatio), and the scale is one that
\* a press has stored.
C18_DragSeeksWithScaleOfPress ==
    (ev.op = "mouseDrag" /\ showTransportCursor) =>
        /\ currentXScale # Indeterminate
        /\ seeks = <<DMul(currentXScale,
                          DSub(D(ev.arg[1]),
                               DMul(D(width), startOffsetRatio)))>>

\* C19 as stated: an imageChanged() from the own source with a reader whose
\* sample rate is positive stores the reader's rate, the player's length and
\* its reciprocal, and leaves the timer running exactly when
\* showTransportCursor is true and the new length is positive.
C19_ValidFileSetsSnapshotAndPoller ==
    (ev.op = "imageChanged" /\ ev.arg[1] = "own" /\ ReaderIsValid(ev.arg[2])) =>
        /\ currentSampleRate = ev.arg[2]
        /\ fileLength = ev.arg[3]
        /\ oneOverFileLength = DDiv(D(1), ev.arg[3])
        /\ timerRunning <=> (showTransportCursor /\ DGreater(ev.arg[3], D(0)))

\* The frame: every handler of the class, each with one argument; the
\* cursor display is switched off and the timer is started by imageChanged.
NextFrame ==
    \/ SetZoomRatio(D(2))
    \/ SetStartOffsetRatio(Ratio(1, 2))
    \/ SetVerticalZoomRatio(D(2))
    \/ SetCursorDisplayed(FALSE)
    \/ SetBackgroundColour("white")
    \/ SetWaveformColour("white")
    \/ \E src \in SourceImages : Resized(MaxWidth, MaxHeight, FALSE, src)
    \/ TimerCallback(D(0))
    \/ ImageChanged("own", D(48000), D(MaxLength))
    \/ \E src \in SourceImages : ImageUpdated("own", src)
    \/ \E src \in SourceImages : ImageFinished("own", FALSE, src)
    \/ MouseDown(0)
    \/ MouseUp
    \/ MouseDrag(0)
    \/ Paint

SpecFrame == Init /\ [][NextFrame]_vars

\* C21: zoomRatio, startOffsetRatio, verticalZoomRatio, showTransportCursor,
\* backgroundColour and waveformColour each change only in a call of their
\* own setter: timerCallback, paint, resized, mouseDown, mouseDrag, mouseUp,
\* imageChanged, imageUpdated and imageFinished leave all six as they were,
\* and each setter leaves the other five as they were.
C21_ViewStateChangedOnlyByOwnSetter ==
    [][/\ zoomRatio' # zoomRatio => ev'.op = "setZoomRatio"
       /\ startOffsetRatio' # startOffsetRatio
             => ev'.op = "setStartOffsetRatio"
       /\ verticalZoomRatio' # verticalZoomRatio
             => ev'.op = "setVerticalZoomRatio"
       /\ showTransportCursor' # showTransportCursor
             => ev'.op = "setCursorDisplayed"
       /\ backgroundColour' # backgroundColour
             => ev'.op = "setBackgroundColour"
       /\ waveformColour' # waveformColour
             => ev'.op = "setWaveformColour"]_vars

\* a tick on a view whose five other fields were all set away from their
\* defaults: they are still as set
C21_Witness ==
    /\ ev.op = "timerCallback"
    /\ zoomRatio = D(2) /\ startOffsetRatio = Ratio(1, 2)
    /\ verticalZoomRatio = D(2) /\ showTransportCursor
    /\ backgroundColour = "white" /\ waveformColour = "white"

\* C22 as stated: whenever timerCallback() runs, oneOverFileLength and
\* fileLength have been assigned by an earlier imageChanged().
C22_TickReadsInitialisedReciprocal ==
    ev.op = "timerCallback" =>
        (oneOverFileLength # Indeterminate /\ fileLength # Indeterminate)

\* C23 as stated: an imageChanged(), imageUpdated() or imageFinished() sent
\* by another AudioThumbnailImage leaves every member as it was and asks for
\* no repaint.
C23_OtherSenderChangesNothing ==
    [][(ev'.op \in {"imageChanged", "imageUpdated", "imageFinished"}
            /\ ev'.arg[1] = "other") =>
          /\ repaints' = <<>>
          /\ UNCHANGED <<viewVars, snapshotVars, imageVars,
                         transportLineXCoord, mouseVars, timerRunning,
                         boundsVars, thumbColours>>]_vars

====
